---- MODULE Spec2Model ----
(***************************************************************************)
(* Model of src/addon_none.cc: the facade of the notification addon for    *)
(* platforms that are not supported.  The JavaScript environment is a heap *)
(* of promises and objects; the host loads the module (Init fills the      *)
(* exports object) and then calls the exported functions by name.  Every   *)
(* return of a call is appended to the host's call log.                    *)
(***************************************************************************)
EXTENDS Integers, Sequences, FiniteSets, TLC

VARIABLES
    pc,       \* "unloaded" before NODE_API_MODULE has run Init, then "loaded"
    exports,  \* the exports object: a set of <<property name, value>> pairs
    heap,     \* the Napi::Env's heap: a sequence of promise and object cells
    log       \* one entry per returned call, in call order

vars == <<pc, exports, heap, log>>

\* Number of calls the host makes in one run.
MaxCalls == 3

\* The arguments a caller passes: nothing, null, an empty descriptor, a
\* malformed descriptor.
Inputs == {"absent", "null", "empty", "malformed"}

----------------------------------------------------------------------------
(* Napi values.  A primitive carries its payload; a promise or an object   *)
(* is a reference to a heap cell.                                          *)

Undefined == [t |-> "undefined"]

Boolean(b) == [t |-> "boolean", b |-> b]

String(s) == [t |-> "string", s |-> s]

Function(cb) == [t |-> "function", cb |-> cb]

Ref(a) == [t |-> "ref", a |-> a]

\* Napi::Promise::Deferred::New(env): a new pending promise at the next address.
DeferredNew(env) ==
    Append(env, [kind |-> "promise", state |-> "pending", value |-> Undefined])

\* deferred.Resolve(v): fulfils a pending promise; a settled one stays as it is.
Resolve(env, a, v) ==
    IF env[a].kind = "promise" /\ env[a].state = "pending"
    THEN [env EXCEPT ![a].state = "fulfilled", ![a].value = v]
    ELSE env

\* Napi::Object::New(env): a new object without properties at the next address.
ObjectNew(env) == Append(env, [kind |-> "object", props |-> {}])

\* obj.Set(key, v) on a property set: replaces the property or adds it.
PropsSet(props, key, v) == {p \in props : p[1] # key} \cup {<<key, v>>}

\* result.Set(key, v) on the object at address a.
ObjectSet(env, a, key, v) ==
    [env EXCEPT ![a].props = PropsSet(env[a].props, key, v)]

----------------------------------------------------------------------------
(* The six stubs.  info is the Napi::CallbackInfo: info.env is the heap of  *)
(* info.Env() and info.args the arguments.  A stub yields the heap it      *)
(* leaves, the value it returns and whether it left by an exception.       *)

\* Variant: the flag is handed back through a resolved promise.
IsAvailableAsPromise(info) ==
    LET env      == info.env
        deferred == Len(env) + 1
        e1       == DeferredNew(env)
        e2       == Resolve(e1, deferred, Boolean(FALSE))
    IN  [env |-> e2, value |-> Ref(deferred), threw |-> FALSE]

IsAvailable(info) ==
    [env |-> info.env, value |-> Boolean(FALSE), threw |-> FALSE]

\* deferred.Reject(v): rejects a pending promise.
Reject(env, a, v) ==
    IF env[a].kind = "promise" /\ env[a].state = "pending"
    THEN [env EXCEPT ![a].state = "rejected", ![a].value = v]
    ELSE env

\* Variant: permission is reported as granted.
RequestPermissionGranted(info) ==
    LET env      == info.env
        deferred == Len(env) + 1
        e1       == DeferredNew(env)
        e2       == Resolve(e1, deferred, Boolean(TRUE))
    IN  [env |-> e2, value |-> Ref(deferred), threw |-> FALSE]

\* Variant: unavailability is reported by rejecting the promise.
RequestPermissionRejects(info) ==
    LET env      == info.env
        deferred == Len(env) + 1
        e1       == DeferredNew(env)
        e2       == Reject(e1, deferred, String("not available"))
    IN  [env |-> e2, value |-> Ref(deferred), threw |-> FALSE]

RequestPermission(info) ==
    LET env      == info.env
        deferred == Len(env) + 1
        e1       == DeferredNew(env)
        e2       == Resolve(e1, deferred, Boolean(FALSE))
    IN  [env |-> e2, value |-> Ref(deferred), threw |-> FALSE]

\* Variant: the status of a permission nobody was asked for.
GetPermissionStatusNotDetermined(info) ==
    LET env      == info.env
        deferred == Len(env) + 1
        e1       == DeferredNew(env)
        e2       == Resolve(e1, deferred, String("not-determined"))
    IN  [env |-> e2, value |-> Ref(deferred), threw |-> FALSE]

\* Variant: "not-determined" until the environment holds an earlier promise.
GetPermissionStatusTracksRequests(info) ==
    LET env      == info.env
        deferred == Len(env) + 1
        e1       == DeferredNew(env)
        status   == IF env = <<>> THEN "not-determined" ELSE "denied"
        e2       == Resolve(e1, deferred, String(status))
    IN  [env |-> e2, value |-> Ref(deferred), threw |-> FALSE]

\* Variant: the deferred is returned without the Resolve call.
GetPermissionStatusUnresolved(info) ==
    LET env      == info.env
        deferred == Len(env) + 1
        e1       == DeferredNew(env)
    IN  [env |-> e1, value |-> Ref(deferred), threw |-> FALSE]

GetPermissionStatus(info) ==
    LET env      == info.env
        deferred == Len(env) + 1
        e1       == DeferredNew(env)
        e2       == Resolve(e1, deferred, String("denied"))
    IN  [env |-> e2, value |-> Ref(deferred), threw |-> FALSE]

\* Variant: the descriptor is read, and a missing one is a TypeError.
ShowNotificationChecksArgument(info) ==
    LET env      == info.env
        deferred == Len(env) + 1
        e1       == DeferredNew(env)
        result   == Len(e1) + 1
        e2       == ObjectNew(e1)
        e3       == ObjectSet(e2, result, "success", Boolean(FALSE))
        e4       == ObjectSet(e3, result, "error",
                       String("Native notifications not available on this platform"))
        e5       == Resolve(e4, deferred, Ref(result))
    IN  IF info.args = "absent"
        THEN [env |-> env, value |-> Undefined, threw |-> TRUE]
        ELSE [env |-> e5, value |-> Ref(deferred), threw |-> FALSE]

\* Variant: the result record is built once and every later call resolves
\* with that same object.
ShowNotificationSharedRecord(info) ==
    LET env      == info.env
        deferred == Len(env) + 1
        e1       == DeferredNew(env)
        old      == {a \in DOMAIN env : env[a].kind = "object"}
        result   == Len(e1) + 1
        e2       == ObjectNew(e1)
        e3       == ObjectSet(e2, result, "success", Boolean(FALSE))
        e4       == ObjectSet(e3, result, "error",
                       String("Native notifications not available on this platform"))
        e5       == Resolve(e4, deferred, Ref(result))
    IN  IF old = {}
        THEN [env |-> e5, value |-> Ref(deferred), threw |-> FALSE]
        ELSE [env   |-> Resolve(e1, deferred, Ref(CHOOSE a \in old : TRUE)),
              value |-> Ref(deferred), threw |-> FALSE]

ShowNotification(info) ==
    LET env      == info.env
        deferred == Len(env) + 1
        e1       == DeferredNew(env)
        result   == Len(e1) + 1
        e2       == ObjectNew(e1)
        e3       == ObjectSet(e2, result, "success", Boolean(FALSE))
        e4       == ObjectSet(e3, result, "error",
                       String("Native notifications not available on this platform"))
        e5       == Resolve(e4, deferred, Ref(result))
    IN  [env |-> e5, value |-> Ref(deferred), threw |-> FALSE]

RemoveNotification(info) ==
    [env |-> info.env, value |-> Undefined, threw |-> FALSE]

\* Variant: removing all notifications clears the records handed out so far.
RemoveAllNotificationsClearsRecords(info) ==
    [env   |-> [a \in DOMAIN info.env |->
                   IF info.env[a].kind = "object"
                   THEN [info.env[a] EXCEPT !.props = {}]
                   ELSE info.env[a]],
     value |-> Undefined, threw |-> FALSE]

RemoveAllNotifications(info) ==
    [env |-> info.env, value |-> Undefined, threw |-> FALSE]

\* Variant: the fifth name is registered twice and the sixth not at all.
InitDuplicateName(exp) ==
    LET x1 == PropsSet(exp, "isAvailable", Function("IsAvailable"))
        x2 == PropsSet(x1, "requestPermission", Function("RequestPermission"))
        x3 == PropsSet(x2, "getPermissionStatus", Function("GetPermissionStatus"))
        x4 == PropsSet(x3, "showNotification", Function("ShowNotification"))
        x5 == PropsSet(x4, "removeNotification", Function("RemoveNotification"))
        x6 == PropsSet(x5, "removeNotification", Function("RemoveAllNotifications"))
    IN  x6

\* Init(env, exports): the six exports.Set calls, in order, on the object exp.
Init(exp) ==
    LET x1 == PropsSet(exp, "isAvailable", Function("IsAvailable"))
        x2 == PropsSet(x1, "requestPermission", Function("RequestPermission"))
        x3 == PropsSet(x2, "getPermissionStatus", Function("GetPermissionStatus"))
        x4 == PropsSet(x3, "showNotification", Function("ShowNotification"))
        x5 == PropsSet(x4, "removeNotification", Function("RemoveNotification"))
        x6 == PropsSet(x5, "removeAllNotifications", Function("RemoveAllNotifications"))
    IN  x6

----------------------------------------------------------------------------
(* The host's side: what a caller sees of a value, and the call log.       *)

\* The value as the caller observes it: a promise with its state and settled
\* value, an object with its properties, addresses left out.
RECURSIVE Snapshot(_, _)
Snapshot(env, v) ==
    IF v.t # "ref" THEN v
    ELSE LET c == env[v.a] IN
         IF c.kind = "promise"
         THEN [t |-> "promise", state |-> c.state, value |-> Snapshot(env, c.value)]
         ELSE [t |-> "object", props |-> {<<p[1], Snapshot(env, p[2])>> : p \in c.props}]

\* The names under which the exports object holds the callback cb.
NamesOf(cb) == {p[1] : p \in {q \in exports : q[2] = Function(cb)}}

\* A call of the export `name` with arguments `args` returns r.
Return(name, args, r) ==
    /\ heap' = r.env
    /\ log' = Append(log, [op    |-> name,
                           args  |-> args,
                           threw |-> r.threw,
                           ret   |-> r.value,
                           seen  |-> Snapshot(r.env, r.value)])
    /\ UNCHANGED <<pc, exports>>

CanCall == pc = "loaded" /\ Len(log) < MaxCalls

Info(args) == [env |-> heap, args |-> args]

\* NODE_API_MODULE: the host loads the module once, with an empty exports object.
LoadModule ==
    /\ pc = "unloaded"
    /\ pc' = "loaded"
    /\ exports' = Init(exports)
    /\ UNCHANGED <<heap, log>>

CallIsAvailable ==
    /\ CanCall
    /\ \E name \in NamesOf("IsAvailable"), args \in Inputs :
          Return(name, args, IsAvailable(Info(args)))

CallRequestPermission ==
    /\ CanCall
    /\ \E name \in NamesOf("RequestPermission"), args \in Inputs :
          Return(name, args, RequestPermission(Info(args)))

CallGetPermissionStatus ==
    /\ CanCall
    /\ \E name \in NamesOf("GetPermissionStatus"), args \in Inputs :
          Return(name, args, GetPermissionStatus(Info(args)))

CallShowNotification ==
    /\ CanCall
    /\ \E name \in NamesOf("ShowNotification"), args \in Inputs :
          Return(name, args, ShowNotification(Info(args)))

CallRemoveNotification ==
    /\ CanCall
    /\ \E name \in NamesOf("RemoveNotification"), args \in Inputs :
          Return(name, args, RemoveNotification(Info(args)))

CallRemoveAllNotifications ==
    /\ CanCall
    /\ \E name \in NamesOf("RemoveAllNotifications"), args \in Inputs :
          Return(name, args, RemoveAllNotifications(Info(args)))

\* What a caller may write into a record it received.
Tampered == {<<"success", Boolean(TRUE)>>, <<"error", String("tampered")>>}

\* The caller changes a field of a result record it holds.
CallerSetField ==
    /\ pc = "loaded"
    /\ \E a \in DOMAIN heap, w \in Tampered :
          /\ heap[a].kind = "object"
          /\ <<w[1], w[2]>> \notin heap[a].props
          /\ heap' = ObjectSet(heap, a, w[1], w[2])
    /\ UNCHANGED <<pc, exports, log>>

Start ==
    /\ pc = "unloaded"
    /\ exports = {}
    /\ heap = <<>>
    /\ log = <<>>

Next ==
    \/ LoadModule
    \/ CallIsAvailable
    \/ CallRequestPermission
    \/ CallGetPermissionStatus
    \/ CallShowNotification
    \/ CallRemoveNotification
    \/ CallRemoveAllNotifications
    \/ CallerSetField

Spec == Start /\ [][Next]_vars

----------------------------------------------------------------------------
(* Properties.                                                             *)

\* The positions of the log at which the export `name` was called.
Calls(name) == {i \in DOMAIN log : log[i].op = name}

\* A promise as a caller sees it once it is fulfilled with v.
Fulfilled(v) == [t |-> "promise", state |-> "fulfilled", value |-> v]

PromiseOps == {"requestPermission", "getPermissionStatus", "showNotification"}

RemovalOps == {"removeNotification", "removeAllNotifications"}

NotAvailable ==
    [t |-> "object",
     props |-> {<<"success", Boolean(FALSE)>>,
                <<"error", String("Native notifications not available on this platform")>>}]

\* C1: every showNotification call, whatever its descriptor and whatever was
\* called before, returns without exception a promise fulfilled with the
\* record {success: false, error: "Native notifications not available on
\* this platform"}.
C1_ShowNotificationResult ==
    \A i \in Calls("showNotification") :
        /\ ~log[i].threw
        /\ log[i].seen = Fulfilled(NotAvailable)

\* Two showNotification calls with different descriptors (a malformed one and
\* none at all) have returned after an earlier call of another operation.
C1_Witness ==
    \E i, j \in Calls("showNotification") :
        /\ 1 < i /\ i < j
        /\ log[1].op # "showNotification"
        /\ log[i].args = "malformed"
        /\ log[j].args = "absent"

\* C2: every requestPermission call returns a promise fulfilled with the
\* boolean false: not pending, not rejected.
C2_RequestPermissionResult ==
    \A i \in Calls("requestPermission") :
        /\ ~log[i].threw
        /\ log[i].seen = Fulfilled(Boolean(FALSE))

\* requestPermission has returned twice, with different arguments, after a
\* call of another operation.
C2_Witness ==
    \E i, j \in Calls("requestPermission") :
        /\ 1 < i /\ i < j
        /\ log[1].op # "requestPermission"
        /\ log[i].args # log[j].args

\* C3: every getPermissionStatus call, also after requestPermission calls,
\* returns a promise fulfilled with the string "denied".
C3_GetPermissionStatusResult ==
    \A i \in Calls("getPermissionStatus") :
        /\ ~log[i].threw
        /\ log[i].seen = Fulfilled(String("denied"))

\* getPermissionStatus has returned after a requestPermission call.
C3_Witness ==
    \E i \in Calls("requestPermission"), j \in Calls("getPermissionStatus") :
        i < j /\ log[j].args # "absent"

\* C4: every isAvailable call returns the boolean false itself, not a promise.
C4_IsAvailableResult ==
    \A i \in Calls("isAvailable") :
        /\ ~log[i].threw
        /\ log[i].ret = Boolean(FALSE)

\* isAvailable has returned with arguments, after a call that left a promise
\* on the heap.
C4_Witness ==
    \E i \in Calls("isAvailable") :
        /\ 1 < i
        /\ log[i].args # "absent"
        /\ heap # <<>>

\* The last entry of the log after a step that appended one.
Returned(name) ==
    /\ Len(log') = Len(log) + 1
    /\ log'[Len(log')].op = name

\* C5: a removeNotification or removeAllNotifications call returns undefined
\* without exception and leaves the heap and the exports as they were; a call
\* made after a removal has the result that a call of the same operation has
\* with no removal before it.
C5_RemovalsHaveNoEffect ==
    /\ [][\A name \in RemovalOps :
             Returned(name) =>
                 /\ heap' = heap
                 /\ exports' = exports
                 /\ log'[Len(log')].ret = Undefined
                 /\ ~log'[Len(log')].threw]_vars
    /\ [](\A j, k \in DOMAIN log :
             /\ log[j].op = log[k].op
             /\ \E i \in 1..(j - 1) : log[i].op \in RemovalOps
             /\ \A i \in 1..(k - 1) : log[i].op \notin RemovalOps
             => /\ log[j].seen = log[k].seen
                /\ log[j].threw = log[k].threw)

\* showNotification, a removal with a null identifier, showNotification again.
C5_Witness ==
    /\ Len(log) >= 3
    /\ log[1].op = "showNotification"
    /\ log[2].op \in RemovalOps /\ log[2].args = "null"
    /\ log[3].op = "showNotification"

\* C6: any two calls of the same operation in a run have the same result,
\* whatever their arguments and whatever was called before each.
C6_Stateless ==
    \A i, j \in DOMAIN log :
        log[i].op = log[j].op =>
            /\ log[i].seen = log[j].seen
            /\ log[i].threw = log[j].threw

\* getPermissionStatus before and after a requestPermission call.
C6_Witness ==
    /\ Len(log) >= 3
    /\ log[1].op = "getPermissionStatus"
    /\ log[2].op = "requestPermission"
    /\ log[3].op = "getPermissionStatus"
    /\ log[1].args # log[3].args

\* C7: no call leaves by an exception, and no promise of the module is
\* rejected, neither when it is returned nor later.
C7_NoFailureChannel ==
    /\ \A i \in DOMAIN log : ~log[i].threw
    /\ \A i \in DOMAIN log :
          log[i].op \in PromiseOps => log[i].seen.state # "rejected"
    /\ \A a \in DOMAIN heap :
          heap[a].kind = "promise" => heap[a].state # "rejected"

\* Each of the three promise-returning operations has returned.
C7_Witness ==
    \A name \in PromiseOps : Calls(name) # {}

\* C8: once the module is loaded the exports object holds exactly the six
\* names, each bound to the stub of the same name.
C8_SixExports ==
    pc = "loaded" =>
        exports = {<<"isAvailable", Function("IsAvailable")>>,
                   <<"requestPermission", Function("RequestPermission")>>,
                   <<"getPermissionStatus", Function("GetPermissionStatus")>>,
                   <<"showNotification", Function("ShowNotification")>>,
                   <<"removeNotification", Function("RemoveNotification")>>,
                   <<"removeAllNotifications", Function("RemoveAllNotifications")>>}

\* The module is loaded and a call through the exports object has returned.
C8_Witness ==
    /\ pc = "loaded"
    /\ exports # {}
    /\ Calls("removeAllNotifications") # {}

\* C9: a promise of the module is settled when the call returns it, and the
\* heap never holds a pending promise.
C9_SettledOnReturn ==
    /\ \A i \in DOMAIN log :
          log[i].op \in PromiseOps =>
              /\ log[i].ret.t = "ref"
              /\ log[i].seen.t = "promise"
              /\ log[i].seen.state # "pending"
    /\ \A a \in DOMAIN heap :
          heap[a].kind = "promise" => heap[a].state # "pending"

\* The last call returned the promise that is the newest cell of the heap.
C9_Witness ==
    /\ log # <<>>
    /\ log[Len(log)].op = "getPermissionStatus"
    /\ log[Len(log)].ret = Ref(Len(heap))

\* The record the i-th call's promise holds, in the heap h.
RecordOf(h, l, i) == h[l[i].ret.a].value

\* C10: two showNotification calls never return the same promise or the same
\* record, and a step that changes the record one call resolved with changes
\* the record of no other call.
C10_FreshRecord ==
    [][/\ \A i, j \in Calls("showNotification")' :
             i # j => /\ log'[i].ret # log'[j].ret
                      /\ RecordOf(heap', log', i) # RecordOf(heap', log', j)
       /\ \A i, j \in Calls("showNotification") :
             /\ i # j
             /\ Snapshot(heap', log[i].ret) # Snapshot(heap, log[i].ret)
             => Snapshot(heap', log[j].ret) = Snapshot(heap, log[j].ret)]_vars

\* The caller has changed the record of an earlier showNotification call, and
\* a later call's record is as it was returned.
C10_Witness ==
    \E i, j \in Calls("showNotification") :
        /\ i < j
        /\ Snapshot(heap, log[i].ret) # log[i].seen
        /\ Snapshot(heap, log[j].ret) = log[j].seen

====
